---- MODULE Spec2Model ----
(***************************************************************************)
(* emu-runner: launch contexts for the BizHawk, FCEUX and Gens emulators.  *)
(*                                                                         *)
(* The model covers the unix build (cfg(target_family = "unix")): the      *)
(* windows branch of FceuxContext::prepare names an undeclared variable    *)
(* (fceux.rs:110), so the crate only builds for unix.                      *)
(*                                                                         *)
(* A path is a sequence of components; an absolute path starts with the    *)
(* root component "/".  The filesystem maps the absolute paths that exist  *)
(* to "dir" or to the content of a regular file.  File contents are opaque *)
(* strings; Sha1 maps each content to its digest and is injective on the   *)
(* modelled contents (the digest is assumed collision resistant).          *)
(***************************************************************************)
EXTENDS Integers, Sequences, FiniteSets, TLC

VARIABLES
    adapter,  \* which implementation of EmulatorContext the context is
    fs,       \* the filesystem
    cwd,      \* the process's current directory
    ctx,      \* the context: config, movie, lua, rom, working_dir (+ Gens fields)
    built,    \* a clone of the context as the builders left it
    given,    \* the path each with_* call was handed, and the cwd at the latest of them
    hist,     \* what each prepare call did, in call order
    spawned,  \* the commands handed to the process-spawn primitive
    pc,       \* "build", "prepared" or "done" (the context was consumed by run)
    nwith,    \* builder calls made
    nprep,    \* prepare calls made
    nenv,     \* changes made from outside the library
    copying,  \* the copy_if_different call followed system call by system call
    observed  \* what another process read at the destination of that call

vars == <<adapter, fs, cwd, ctx, built, given, hist, spawned, pc, nwith, nprep, nenv,
          copying, observed>>

\* ------------------------------------------------------------------ bounds
MaxWith == 2
MaxPrepare == 2
MaxEnv == 1

\* ------------------------------------------------------------------- paths
None == <<>>
Root == "/"

is_absolute(p) == Len(p) > 0 /\ p[1] = Root

\* Utf8PathBuf::push: pushing an absolute path replaces the receiver
push(base, p) == IF is_absolute(p) THEN p ELSE base \o p

file_name(p) == <<p[Len(p)]>>

parent(p) == SubSeq(p, 1, Len(p) - 1)

\* --------------------------------------------------------------- filesystem
At(f, p) == IF p \in DOMAIN f THEN f[p] ELSE "none"

exists(f, d, p) == At(f, push(d, p)) # "none"

is_dir(f, d, p) == At(f, push(d, p)) = "dir"

is_file(f, d, p) == At(f, push(d, p)) \notin {"none", "dir"}

read(f, d, p) == At(f, push(d, p))

\* Utf8Path::canonicalize_utf8: the absolute form of an existing path, else an error
canonicalize_or(f, d, p) == IF exists(f, d, p) THEN push(d, p) ELSE p

\* std::fs::write: create or truncate; fails when the parent directory is
\* missing or the destination is a directory
fs_write(f, dest, data) ==
    IF At(f, parent(dest)) = "dir" /\ At(f, dest) # "dir"
    THEN [fs |-> [q \in DOMAIN f \cup {dest} |-> IF q = dest THEN data ELSE f[q]],
          ok |-> TRUE, wrote |-> TRUE]
    ELSE [fs |-> f, ok |-> FALSE, wrote |-> FALSE]

\* std::fs::create_dir_all on a child of an existing directory
create_dir_all(f, dest) ==
    IF At(f, dest) = "dir" THEN [fs |-> f, ok |-> TRUE]
    ELSE IF At(f, dest) = "none" /\ At(f, parent(dest)) = "dir"
    THEN [fs |-> [q \in DOMAIN f \cup {dest} |-> IF q = dest THEN "dir" ELSE f[q]],
          ok |-> TRUE]
    ELSE [fs |-> f, ok |-> FALSE]

\* ------------------------------------------------------- bundled payloads
BIZHAWK_BASH_DEFAULT == "start-bizhawk.sh"
BIZHAWK_BASH_PRE290 == "start-bizhawk-pre290.sh"

\* --------------------------------------------------- version fingerprints
\* <<content of EmuHawk.exe, its SHA1, version label>>, in table order
Builds ==
    << <<"EmuHawk 2.9.1",   "ef7c4067cec01b60b89ff8c271f3c72a0b2d009f", "2.9.1">>,
       <<"EmuHawk 2.9",     "c9be7f8e4a05122e60545e8988920b710bd50ea7", "2.9">>,
       <<"EmuHawk 2.9-rc3", "31a2fadd049957377358a0b7b1267f3d8ecebfd9", "2.9-rc3">>,
       <<"EmuHawk 2.9-rc2", "a6ff6e02a05a0ec52695a7ec757aedcdc16e0192", "2.9-rc2">>,
       <<"EmuHawk 2.9-rc1", "288e310c430cbcbc0881913efd82e91f16dc14dd", "2.9-rc1">>,
       <<"EmuHawk 2.8",     "88e476295d004a80ea514847c0d590879e7b3d88", "2.8">>,
       <<"EmuHawk 2.8-rc1", "9d2738265a37e28813eeff08e41def697f58cbee", "2.8-rc1">>,
       <<"EmuHawk 2.7",     "eac6aa28589372d120e23e5b2f69b56c2542273b", "2.7">>,
       <<"EmuHawk 1.9.2",   "3261214b9991918c5224d27b6cf7d84f9acd3566", "1.9.2">>,
       <<"EmuHawk 1.6.1",   "202a0d945cd20a1b2e5021d3499ac7b5c2f5ca46", "1.6.1">>,
       <<"EmuHawk 2.6.3",   "7dd9dce90e16138ca38ef92cdb1270a378d21dad", "2.6.3">>,
       <<"EmuHawk 2.6.2",   "3668613ed1fc61f1dafde9b678e6a637da23d882", "2.6.2">>,
       <<"EmuHawk 2.6.1",   "115cb73156b4a288378fd00aa0fd982fb0c311c5", "2.6.1">>,
       <<"EmuHawk 2.6",     "307526d8171fa9aa2dfbf735aa1eca23425b829a", "2.6">>,
       <<"EmuHawk 2.5.2",   "7bcc6337005dba33fbc8a454cf7f669563f39e85", "2.5.2">>,
       <<"EmuHawk 2.5.1",   "410c423feef9666955b2a0d66c3b64c3e432988a", "2.5.1">>,
       <<"EmuHawk 2.5.0",   "d45a7348a8e5505b294df9add852787d04b569e4", "2.5.0">>,
       <<"EmuHawk 2.4.2",   "6e169792aebef5942c9fabd276c7d3e07e2c3196", "2.4.2">>,
       <<"EmuHawk 2.4.1",   "71d9bd1ae6d60b6fc7d3aebe474eae50995c29d7", "2.4.1">>,
       <<"EmuHawk 2.4",     "2668ef81bad2459a9a14a09a3a8d5ee2c6e9cbac", "2.4">>,
       <<"EmuHawk 2.3.3",   "1fbf1b672ddb4e98aef77a8edd5655149b4b4c72", "2.3.3">>,
       <<"EmuHawk 2.3.2",   "d9365fd6f1f979a52689979e5709b26dfef7dc09", "2.3.2">>,
       <<"EmuHawk 2.3.1",   "c2f4b95b86a11c472f7e8522598be644e9e05c6d", "2.3.1">>,
       <<"EmuHawk 2.3",     "b2072e0bdf4944d060c83f44df17e88da4007c81", "2.3">>,
       <<"EmuHawk 1.13.2",  "ab83cfd3ed5b9dc392d2b0d4aa1b99723c5bf4c9", "1.13.2">>,
       <<"EmuHawk 2.2.2",   "4c1599c7ed7e5216477454ac7fac0719f2ee6e66", "2.2.2">>,
       <<"EmuHawk 2.2.1",   "6095cb07bd79703527c01ad4f27ed4e907d2f030", "2.2.1">>,
       <<"EmuHawk 2.2",     "4e2ec35bff8798494d3cc0e22276f2456939257d", "2.2">>,
       <<"EmuHawk 2.1.1",   "fc372a78d03ca5229f3c125a9dff91a779a66b7a", "2.1.1">>,
       <<"EmuHawk 2.1.0",   "c2e31867428e03ba2ef23911d605163a7008d6a5", "2.1.0">> >>

BuildIx == 1 .. Len(Builds)

\* an executable image that is in no table row
UnknownBuild == "EmuHawk nightly"

\* sha1_smol::Sha1::from(data).digest(): the table rows' digests for the
\* known images, a digest of its own for every other content
Sha1(data) ==
    IF \E i \in BuildIx : Builds[i][1] = data
    THEN Builds[CHOOSE i \in BuildIx : Builds[i][1] = data][2]
    ELSE CASE data = UnknownBuild          -> "d0f1c5a8 (not in the table)"
           [] data = BIZHAWK_BASH_DEFAULT  -> "sha1 of start-bizhawk.sh"
           [] data = BIZHAWK_BASH_PRE290   -> "sha1 of start-bizhawk-pre290.sh"
           [] data = "A"                   -> "sha1 of A"
           [] data = "B"                   -> "sha1 of B"
           [] data = "C"                   -> "sha1 of C"
           [] data = "old"                 -> "sha1 of old"
           [] OTHER                        -> "sha1 of " \o data

\* ---------------------------------------------------- Content Synchronizer
\* a synchronizer that never replaces an existing file
copy_if_absent(f, data, dest) ==
    IF is_file(f, None, dest)
    THEN [fs |-> f, ok |-> TRUE, wrote |-> FALSE]
    ELSE fs_write(f, dest, data)

\* dest is absolute; the record says whether std::fs::write was called
copy_if_different(f, data, dest) ==
    IF is_file(f, None, dest) /\ Sha1(data) = Sha1(read(f, None, dest))
    THEN [fs |-> f, ok |-> TRUE, wrote |-> FALSE]
    ELSE fs_write(f, dest, data)

\* ------------------------------------------------------------------ errors
Ok == [kind |-> "Ok", path |-> None]

Err(kind, p) == [kind |-> kind, path |-> p]

\* ---------------------------------------------------------------- contexts
\* One record shape for the three context structs; a field a struct does not
\* have stays at its default (config for Gens, version and start_paused for
\* the others).
NoVersion == "-"

GensVersion == {"Ver11A", "Ver11B", "GitA2425B5"}

Fields == {"config", "movie", "lua", "rom"}

\* the progress of one prepare call: the receiver, the filesystem, the first
\* error, every copy_if_different call made and every field examined
Begin(c, f) ==
    [ctx |-> c, fs |-> f, err |-> Ok, copies |-> <<>>, checked |-> <<>>,
     version_checked |-> FALSE]

\* copy_if_different(data, dest)? inside prepare
Stage(acc, field, data, dest) ==
    LET r == copy_if_different(acc.fs, data, dest)
    IN [acc EXCEPT !.fs = r.fs,
                   !.err = IF r.ok THEN @ ELSE Err("StdIo", dest),
                   !.copies = Append(@, [field |-> field, dest |-> dest, data |-> data,
                                         before |-> At(acc.fs, dest),
                                         after |-> At(r.fs, dest),
                                         wrote |-> r.wrote, ok |-> r.ok])]

\* a field check that goes on after an earlier field failed
require_abs_file_regardless(acc, d, field, missing) ==
    LET p == acc.ctx[field]
        a == [acc EXCEPT !.checked = Append(@, field)]
    IN IF p = None THEN acc
       ELSE IF ~is_file(acc.fs, d, p) THEN [a EXCEPT !.err = Err(missing, p)]
       ELSE IF ~is_absolute(p) THEN [a EXCEPT !.err = Err("AbsolutePathFailed", None)]
       ELSE a

\* the field check without the is_absolute test
require_file_only(acc, d, field, missing) ==
    LET p == acc.ctx[field]
        a == [acc EXCEPT !.checked = Append(@, field)]
    IN IF acc.err # Ok \/ p = None THEN acc
       ELSE IF ~is_file(acc.fs, d, p) THEN [a EXCEPT !.err = Err(missing, p)]
       ELSE a

\* if let Some(x) = self.x { if !x.is_file() {Missing}; if !x.is_absolute() {AbsolutePathFailed} }
require_abs_file(acc, d, field, missing) ==
    LET p == acc.ctx[field]
        a == [acc EXCEPT !.checked = Append(@, field)]
    IN IF acc.err # Ok \/ p = None THEN acc
       ELSE IF ~is_file(acc.fs, d, p) THEN [a EXCEPT !.err = Err(missing, p)]
       ELSE IF ~is_absolute(p) THEN [a EXCEPT !.err = Err("AbsolutePathFailed", None)]
       ELSE a

\* ------------------------------------------------------------------ BizHawk
Pre290Versions == {"2.8", "2.8-rc1", "2.7", "2.6.3", "2.6.2", "2.6.1", "2.6"}

UnsupportedVersions ==
    {"2.5.2", "2.5.1", "2.5.0", "2.4.2", "2.4.1", "2.4", "2.3.3", "2.3.2", "2.3.1",
     "2.3", "2.2.2", "2.2.1", "2.2", "2.1.1", "2.1.0", "1.13.2", "1.9.2", "1.6.1"}

\* Option<String>: <<label>> or None
detect_version(f, c) ==
    LET exe == read(f, None, push(c.working_dir, <<"EmuHawk.exe">>))
        sha1 == Sha1(exe)
    IN IF \E i \in BuildIx : Builds[i][2] = sha1
       THEN <<Builds[CHOOSE i \in BuildIx : Builds[i][2] = sha1][3]>>
       ELSE None

\* a selection that always picks the current script
BizHawk_select_default(ver) == BIZHAWK_BASH_DEFAULT

BizHawk_select(ver) ==
    IF ver # None /\ ver[1] \in Pre290Versions THEN BIZHAWK_BASH_PRE290
    ELSE BIZHAWK_BASH_DEFAULT

\* the bootstrap step without the unsupported-version arm
BizHawk_bash_no_reject(acc) ==
    LET ver == detect_version(acc.fs, acc.ctx)
        a == [acc EXCEPT !.version_checked = TRUE]
    IN IF acc.err # Ok THEN acc
       ELSE Stage(a, "bash", BizHawk_select(ver),
                  push(acc.ctx.working_dir, <<"start-bizhawk.sh">>))

BizHawk_bash(acc) ==
    LET ver == detect_version(acc.fs, acc.ctx)
        a == [acc EXCEPT !.version_checked = TRUE]
    IN IF acc.err # Ok THEN acc
       ELSE IF ver # None /\ ver[1] \in UnsupportedVersions
       THEN [a EXCEPT !.err = Err("IncompatibleOSVersion", None)]
       ELSE Stage(a, "bash", BizHawk_select(ver),
                  push(acc.ctx.working_dir, <<"start-bizhawk.sh">>))

BizHawk_prepare(c, f, d) ==
    LET a1 == require_abs_file(Begin(c, f), d, "config", "MissingConfig")
        a2 == require_abs_file(a1, d, "movie", "MissingMovie")
        a3 == require_abs_file(a2, d, "lua", "MissingLua")
        a4 == require_abs_file(a3, d, "rom", "MissingRom")
    IN BizHawk_bash(a4)

Flag(text) == [text |-> text, path |-> None]

Arg(text, p) == [text |-> text, path |-> p]

Opt(c, field, toks) == IF c[field] = None THEN <<>> ELSE toks

BizHawk_cmd_name(c) == "bash"

BizHawk_args(c) ==
    <<Flag("start-bizhawk.sh")>>
    \o Opt(c, "config", <<Arg("--config=", c.config)>>)
    \o Opt(c, "movie", <<Arg("--movie=", c.movie)>>)
    \o Opt(c, "lua", <<Arg("--lua=", c.lua)>>)
    \o Opt(c, "rom", <<Arg("", c.rom)>>)

BizHawk_env(c) == <<>>

\* -------------------------------------------------------------------- FCEUX
\* Option<String>: <<name>> or None
determine_executable(f, c) ==
    IF is_file(f, c.working_dir, <<"fceux">>) THEN <<"fceux">>
    ELSE IF is_file(f, c.working_dir, <<"fceux.exe">>) THEN <<"fceux.exe">>
    ELSE IF is_file(f, c.working_dir, <<"fceux64.exe">>) THEN <<"fceux64.exe">>
    ELSE IF is_file(f, c.working_dir, <<"qfceux.exe">>) THEN <<"qfceux.exe">>
    ELSE None

\* a staging that puts the native build's config beside the executable
Fceux_stage_beside(acc, d) ==
    Stage(acc, "config", read(acc.fs, d, acc.ctx.config),
          push(acc.ctx.working_dir, <<"fceux.cfg">>))

Fceux_stage_native(acc, d) ==
    LET dir == push(acc.ctx.working_dir, <<".fceux">>)
        m == create_dir_all(acc.fs, dir)
        a == [acc EXCEPT !.fs = m.fs]
    IN IF ~m.ok THEN [acc EXCEPT !.err = Err("StdIo", dir)]
       ELSE Stage(a, "config", read(acc.fs, d, acc.ctx.config), push(dir, <<"fceux.cfg">>))

Fceux_config(acc, d) ==
    LET config == acc.ctx.config
        exe == determine_executable(acc.fs, acc.ctx)
        a == [acc EXCEPT !.checked = Append(@, "config")]
    IN IF acc.err # Ok \/ config = None THEN acc
       ELSE IF ~is_file(acc.fs, d, config) THEN [a EXCEPT !.err = Err("MissingConfig", config)]
       ELSE IF exe = None THEN a
       ELSE IF exe[1] = "fceux" THEN Fceux_stage_native(a, d)
       ELSE IF exe[1] = "qfceux.exe"
       THEN Stage(a, "config", read(acc.fs, d, config),
                  push(acc.ctx.working_dir, <<"fceux.cfg">>))
       ELSE IF ~is_absolute(config) THEN [a EXCEPT !.err = Err("AbsolutePathFailed", None)]
       ELSE a

Fceux_prepare(c, f, d) ==
    LET a1 == Fceux_config(Begin(c, f), d)
        a2 == require_abs_file(a1, d, "movie", "MissingMovie")
        a3 == require_abs_file(a2, d, "lua", "MissingLua")
    IN require_abs_file(a3, d, "rom", "MissingRom")

Fceux_cmd_name(f, c) ==
    LET exe == determine_executable(f, c)
    IN IF exe = None \/ exe[1] = "fceux" THEN "./fceux" ELSE "wine"

Fceux_args(f, c) ==
    LET exe == determine_executable(f, c)
    IN (IF Fceux_cmd_name(f, c) = "wine" THEN <<Flag(exe[1])>> ELSE <<>>)
       \o (IF exe # None /\ exe[1] \in {"fceux.exe", "fceux64.exe"}
           THEN Opt(c, "config", <<Flag("-cfg"), Arg("", c.config)>>)
                \o Opt(c, "movie", <<Flag("-playmovie"), Arg("", c.movie)>>)
                \o Opt(c, "lua", <<Flag("-lua"), Arg("", c.lua)>>)
           ELSE IF exe # None
           THEN Opt(c, "movie", <<Flag("--playmov"), Arg("", c.movie)>>)
                \o Opt(c, "lua", <<Flag("--loadlua"), Arg("", c.lua)>>)
           ELSE <<>>)
       \o Opt(c, "rom", <<Arg("", c.rom)>>)

Fceux_env(f, c) ==
    (IF Fceux_cmd_name(f, c) = "wine"
     THEN <<Arg("WINEPREFIX", push(c.working_dir, <<".wine">>))>> ELSE <<>>)
    \o <<Arg("HOME", push(c.working_dir, <<".fceux">>))>>

\* --------------------------------------------------------------------- Gens
\* the rom is always copied into working_dir and stored by file name
Gens_rom(acc, d) ==
    LET rom == acc.ctx.rom
        a == [acc EXCEPT !.checked = Append(@, "rom")]
        s == Stage(a, "rom", read(acc.fs, d, rom), push(acc.ctx.working_dir, file_name(rom)))
    IN IF acc.err # Ok \/ rom = None THEN acc
       ELSE IF ~is_file(acc.fs, d, rom) THEN [a EXCEPT !.err = Err("MissingRom", rom)]
       ELSE IF s.err # Ok THEN s
       ELSE [s EXCEPT !.ctx.rom = file_name(rom)]

\* movie and lua are copied and renamed only when their path is not absolute
Gens_optional(acc, d, field, missing) ==
    LET p == acc.ctx[field]
        a == [acc EXCEPT !.checked = Append(@, field)]
        s == Stage(a, field, read(acc.fs, d, p), push(acc.ctx.working_dir, file_name(p)))
    IN IF acc.err # Ok \/ p = None THEN acc
       ELSE IF ~is_file(acc.fs, d, p) THEN [a EXCEPT !.err = Err(missing, p)]
       ELSE IF is_absolute(p) THEN a
       ELSE IF s.err # Ok THEN s
       ELSE [s EXCEPT !.ctx = [@ EXCEPT ![field] = file_name(p)]]

Gens_prepare(c, f, d) ==
    LET a1 == Gens_rom(Begin(c, f), d)
        a2 == Gens_optional(a1, d, "movie", "MissingMovie")
    IN Gens_optional(a2, d, "lua", "MissingLua")

Gens_cmd_name(c) == "wine"

Gens_args(c) ==
    <<Arg("", push(c.working_dir, <<"Gens.exe">>))>>
    \o (IF c.start_paused THEN <<Flag("-pause"), Flag("0")>> ELSE <<>>)
    \o Opt(c, "rom", <<Flag("-rom"), Arg("", c.rom)>>)
    \o Opt(c, "movie", <<Flag("-play"), Arg("", c.movie)>>)
    \o Opt(c, "lua", <<Flag("-lua"), Arg("", c.lua)>>)

Gens_env(c) == <<Arg("WINEPREFIX", push(c.working_dir, <<".wine">>))>>

\* ------------------------------------------------ Launch Context Contract
prepare(a, c, f, d) ==
    CASE a = "BizHawk" -> BizHawk_prepare(c, f, d)
      [] a = "Fceux"   -> Fceux_prepare(c, f, d)
      [] a = "Gens"    -> Gens_prepare(c, f, d)

cmd_name(a, c, f) ==
    CASE a = "BizHawk" -> BizHawk_cmd_name(c)
      [] a = "Fceux"   -> Fceux_cmd_name(f, c)
      [] a = "Gens"    -> Gens_cmd_name(c)

args(a, c, f) ==
    CASE a = "BizHawk" -> BizHawk_args(c)
      [] a = "Fceux"   -> Fceux_args(f, c)
      [] a = "Gens"    -> Gens_args(c)

env(a, c, f) ==
    CASE a = "BizHawk" -> BizHawk_env(c)
      [] a = "Fceux"   -> Fceux_env(f, c)
      [] a = "Gens"    -> Gens_env(c)

\* Command::new(cmd_name).args(args).envs(env).current_dir(working_dir)
command(a, c, f) ==
    [name |-> cmd_name(a, c, f), args |-> args(a, c, f), envs |-> env(a, c, f),
     current_dir |-> c.working_dir]

\* run with the command assembled from the context as it was before prepare
run_before_prepare(a, c, f, d) ==
    LET r == prepare(a, c, f, d)
    IN [prep |-> r,
        spawn |-> IF r.err = Ok THEN <<command(a, c, f)>> ELSE <<>>]

\* prepare, then spawn: the command is read from the context as prepare left it
run(a, c, f, d) ==
    LET r == prepare(a, c, f, d)
    IN [prep |-> r,
        spawn |-> IF r.err = Ok THEN <<command(a, r.ctx, r.fs)>> ELSE <<>>]

\* ----------------------------------------------------------------- builders
\* a builder that stores the path as given
canonical_with_as_given(c, f, d, field, p) == [c EXCEPT ![field] = p]

\* a builder that makes the path absolute whether or not it resolves
canonical_with_absolute(c, f, d, field, p) == [c EXCEPT ![field] = push(d, p)]

\* BizHawkContext / FceuxContext::with_*: the canonical path when it resolves
canonical_with(c, f, d, field, p) == [c EXCEPT ![field] = canonicalize_or(f, d, p)]

\* GensContext::with_*: the path as given
Gens_with(c, field, p) == [c EXCEPT ![field] = p]

with_path(a, c, f, d, field, p) ==
    IF a = "Gens" THEN Gens_with(c, field, p) ELSE canonical_with(c, f, d, field, p)

with_pause(c, b) == [c EXCEPT !.start_paused = b]

\* ------------------------------------------------------------ the scenario
W == <<Root, "w">>
C == <<Root, "c">>

put(f, p, v) == [q \in DOMAIN f \cup {p} |-> IF q = p THEN v ELSE f[q]]

\* the files a caller may attach: /c/x, /c/d/x (same file name, other bytes), /c/d/y
SourceFs ==
    (<<Root>> :> "dir") @@ (W :> "dir") @@ (C :> "dir") @@ (C \o <<"d">> :> "dir")
    @@ (C \o <<"x">> :> "A") @@ (C \o <<"d", "x">> :> "B") @@ (C \o <<"d", "y">> :> "C")

\* the paths handed to the builders: absolute, relative, relative in a
\* subdirectory (one with the file name of /c/x, one without), and a path
\* that names no file
Inputs(a) ==
    IF a = "Gens" THEN {C \o <<"x">>, <<"x">>, <<"d", "x">>, <<"d", "y">>}
    ELSE {C \o <<"x">>, <<"x">>, C \o <<"z">>}

Dirs == {W, C}

\* EmuHawk.exe images present at construction: a current, a pre-2.90, an
\* unsupported and an unrecognised build
InitBuilds == {"EmuHawk 2.9", "EmuHawk 2.7", "EmuHawk 2.5.2", UnknownBuild}

Exe == W \o <<"EmuHawk.exe">>

Script == W \o <<"start-bizhawk.sh">>

\* working_dir with EmuHawk.exe, with or without the script of an earlier launch
BizHawkFs ==
    { put(SourceFs, Exe, b) : b \in InitBuilds }
    \cup { put(put(SourceFs, Exe, b), Script, BIZHAWK_BASH_PRE290) : b \in InitBuilds }

\* the candidate executables found in working_dir
Layouts ==
    {{"fceux"}, {"fceux.exe"}, {"fceux64.exe"}, {"qfceux.exe"},
     {"fceux", "fceux.exe", "fceux64.exe", "qfceux.exe"}}

FceuxBin(present) ==
    [q \in DOMAIN SourceFs \cup {W \o <<n>> : n \in present} |->
        IF q \in DOMAIN SourceFs THEN SourceFs[q] ELSE "exe"]

\* what an earlier launch may have left in working_dir: nothing, staged
\* configs, or a regular file where the .fceux directory goes
FceuxLeft(f) ==
    { f,
      put(put(put(f, W \o <<".fceux">>, "dir"), W \o <<".fceux", "fceux.cfg">>, "old"),
          W \o <<"fceux.cfg">>, "old"),
      put(f, W \o <<".fceux">>, "old") }

FceuxFs == UNION { FceuxLeft(FceuxBin(present)) : present \in Layouts }

GensFs ==
    { put(SourceFs, W \o <<"Gens.exe">>, "exe"),
      put(put(SourceFs, W \o <<"Gens.exe">>, "exe"), W \o <<"x">>, "old") }

InitFs(a) == CASE a = "BizHawk" -> BizHawkFs [] a = "Fceux" -> FceuxFs [] a = "Gens" -> GensFs

NewCtx(v) ==
    [config |-> None, movie |-> None, lua |-> None, rom |-> None, working_dir |-> W,
     version |-> v, start_paused |-> FALSE]

InitCtx(a) == IF a = "Gens" THEN {NewCtx(v) : v \in GensVersion} ELSE {NewCtx(NoVersion)}

NoGiven == [config |-> None, movie |-> None, lua |-> None, rom |-> None, at |-> None]

\* no copy_if_different call is being followed
NoCopy == [at |-> "idle"]

\* ------------------------------------------------------------ state machine
\* the state after BizHawkContext::new / FceuxContext::new / GensContext::new,
\* the process being in the emulator's directory until Chdir moves it
Init ==
    /\ adapter \in {"BizHawk", "Fceux", "Gens"}
    /\ fs \in InitFs(adapter)
    /\ ctx \in InitCtx(adapter)
    /\ cwd = W
    /\ built = ctx
    /\ given = NoGiven
    /\ hist = <<>>
    /\ spawned = <<>>
    /\ pc = "build"
    /\ nwith = 0
    /\ nprep = 0
    /\ nenv = 0
    /\ copying = NoCopy
    /\ observed = <<>>

Attach(field, p) ==
    /\ pc = "build"
    /\ nwith < MaxWith
    /\ ctx' = with_path(adapter, ctx, fs, cwd, field, p)
    /\ built' = ctx'
    /\ given' = [given EXCEPT ![field] = p, !.at = cwd]
    /\ nwith' = nwith + 1
    /\ UNCHANGED <<adapter, fs, cwd, hist, spawned, pc, nprep, nenv, copying, observed>>

WithConfig == \E p \in Inputs(adapter) : adapter # "Gens" /\ Attach("config", p)

WithMovie == \E p \in Inputs(adapter) : Attach("movie", p)

WithLua == \E p \in Inputs(adapter) : Attach("lua", p)

WithRom == \E p \in Inputs(adapter) : Attach("rom", p)

WithPause ==
    /\ pc = "build"
    /\ adapter = "Gens"
    /\ nwith < MaxWith
    /\ ctx' = with_pause(ctx, TRUE)
    /\ built' = ctx'
    /\ nwith' = nwith + 1
    /\ UNCHANGED <<adapter, fs, cwd, given, hist, spawned, pc, nprep, nenv, copying, observed>>

\* the caller changes the process's current directory
Chdir ==
    /\ pc = "build"
    /\ nenv < MaxEnv
    /\ \E d \in Dirs \ {cwd} : cwd' = d
    /\ nenv' = nenv + 1
    /\ UNCHANGED <<adapter, fs, ctx, built, given, hist, spawned, pc, nwith, nprep,
                 copying, observed>>

\* what one prepare call did; who is "prepare" or "run"
Entry(who, c, r) ==
    [who |-> who, before |-> c, fs0 |-> fs, cwd |-> cwd, err |-> r.err, after |-> r.ctx,
     fs1 |-> r.fs, copies |-> r.copies, checked |-> r.checked,
     version_checked |-> r.version_checked]

\* ctx.prepare()
Prepare ==
    /\ pc \in {"build", "prepared"}
    /\ nprep < MaxPrepare
    /\ LET r == prepare(adapter, ctx, fs, cwd)
       IN /\ ctx' = r.ctx
          /\ fs' = r.fs
          /\ hist' = Append(hist, Entry("prepare", ctx, r))
    /\ pc' = "prepared"
    /\ nprep' = nprep + 1
    /\ UNCHANGED <<adapter, cwd, built, given, spawned, nwith, nenv,
                 copying, observed>>

\* prepare on an equal context: a clone taken before the first prepare
PrepareClone ==
    /\ pc = "prepared"
    /\ nprep < MaxPrepare
    /\ LET r == prepare(adapter, built, fs, cwd)
       IN /\ fs' = r.fs
          /\ hist' = Append(hist, Entry("prepare", built, r))
    /\ nprep' = nprep + 1
    /\ UNCHANGED <<adapter, cwd, ctx, built, given, spawned, pc, nwith, nenv,
                 copying, observed>>

\* run(ctx): consumes the context
Run ==
    /\ pc \in {"build", "prepared"}
    /\ nprep < MaxPrepare
    /\ LET r == run(adapter, ctx, fs, cwd)
       IN /\ ctx' = r.prep.ctx
          /\ fs' = r.prep.fs
          /\ hist' = Append(hist, Entry("run", ctx, r.prep))
          /\ spawned' = spawned \o r.spawn
    /\ pc' = "done"
    /\ nprep' = nprep + 1
    /\ UNCHANGED <<adapter, cwd, built, given, nwith, nenv,
                 copying, observed>>

\* the build installed over another one: current over unrecognised, pre-2.90
\* over current, unsupported over pre-2.90, unrecognised over unsupported
Reinstalled(b) ==
    CASE b = UnknownBuild    -> "EmuHawk 2.9"
      [] b = "EmuHawk 2.9"   -> "EmuHawk 2.7"
      [] b = "EmuHawk 2.7"   -> "EmuHawk 2.5.2"
      [] b = "EmuHawk 2.5.2" -> UnknownBuild

\* another build of EmuHawk.exe is installed in working_dir between launches
ReplaceExe ==
    /\ pc = "prepared"
    /\ adapter = "BizHawk"
    /\ nenv < MaxEnv
    /\ fs' = put(fs, Exe, Reinstalled(fs[Exe]))
    /\ nenv' = nenv + 1
    /\ UNCHANGED <<adapter, cwd, ctx, built, given, hist, spawned, pc, nwith, nprep,
                 copying, observed>>

Next ==
    \/ WithConfig
    \/ WithMovie
    \/ WithLua
    \/ WithRom
    \/ WithPause
    \/ Chdir
    \/ Prepare
    \/ PrepareClone
    \/ Run
    \/ ReplaceExe

Spec == Init /\ [][Next]_vars

\* ------------------------------------------- copy_if_different, step by step
\* The data of a call is a sequence of blocks; write_all hands them to the
\* file one after the other.  A file's content is the concatenation of the
\* blocks written to it.
MaxBlocks == 2
MaxObserve == 2

Block == {"a", "b"}

Datas == UNION {[1 .. n -> Block] : n \in 1 .. MaxBlocks}

RECURSIVE Bytes(_)
Bytes(blocks) == IF blocks = <<>> THEN "" ELSE Head(blocks) \o Bytes(Tail(blocks))

\* the destination of the staged FCEUX config of the Qt build
CopyDest == W \o <<"fceux.cfg">>

\* the destination before the call: absent, a file of an earlier launch, or
\* a directory
CopyFs ==
    {FceuxBin({"qfceux.exe"})}
    \cup {put(FceuxBin({"qfceux.exe"}), CopyDest, Bytes(old)) : old \in Datas}
    \cup {put(FceuxBin({"qfceux.exe"}), CopyDest, "dir")}

\* everything but the filesystem and the call stays as it is during the call
Launch == <<adapter, cwd, ctx, built, given, hist, spawned, pc, nwith, nprep, nenv>>

\* FceuxContext::prepare has read the config and calls copy_if_different
CopyInit ==
    /\ adapter = "Fceux"
    /\ fs \in CopyFs
    /\ ctx = NewCtx(NoVersion)
    /\ cwd = W
    /\ built = ctx
    /\ given = NoGiven
    /\ hist = <<>>
    /\ spawned = <<>>
    /\ pc = "preparing"
    /\ nwith = 0
    /\ nprep = 0
    /\ nenv = 0
    /\ \E data \in Datas :
          copying = [at |-> "called", data |-> data, dest |-> CopyDest,
                     old |-> At(fs, CopyDest), written |-> 0]
    /\ observed = <<>>

\* includes.rs 13-21: a file with the digest of the data is left alone
CopyCompare ==
    /\ copying.at = "called"
    /\ IF is_file(fs, None, copying.dest)
          /\ Sha1(Bytes(copying.data)) = Sha1(read(fs, None, copying.dest))
       THEN copying' = [copying EXCEPT !.at = "ok"]
       ELSE copying' = [copying EXCEPT !.at = "create"]
    /\ UNCHANGED <<fs, observed, Launch>>

\* std::fs::write, File::create: the destination is opened with create and
\* truncate, which leaves an empty file; a directory cannot be opened
CopyCreate ==
    /\ copying.at = "create"
    /\ \/ /\ At(fs, copying.dest) # "dir"
          /\ fs' = put(fs, copying.dest, "")
          /\ copying' = [copying EXCEPT !.at = "write"]
       \/ /\ At(fs, copying.dest) = "dir"
          /\ fs' = fs
          /\ copying' = [copying EXCEPT !.at = "err"]
    /\ UNCHANGED <<observed, Launch>>

\* std::fs::write, write_all: the next block reaches the file
CopyWrite ==
    /\ copying.at = "write"
    /\ copying.written < Len(copying.data)
    /\ fs' = put(fs, copying.dest, fs[copying.dest] \o copying.data[copying.written + 1])
    /\ copying' = [copying EXCEPT !.written = copying.written + 1]
    /\ UNCHANGED <<observed, Launch>>

\* std::fs::write: every block is written, the call returns Ok
CopyReturn ==
    /\ copying.at = "write"
    /\ copying.written = Len(copying.data)
    /\ copying' = [copying EXCEPT !.at = "ok"]
    /\ UNCHANGED <<fs, observed, Launch>>

\* std::fs::write: a write fails (disk full, I/O error); the error is
\* returned and the file stays as the blocks written so far left it
CopyWriteFails ==
    /\ copying.at = "write"
    /\ copying.written < Len(copying.data)
    /\ copying' = [copying EXCEPT !.at = "err"]
    /\ UNCHANGED <<fs, observed, Launch>>

\* another process reads the destination
Observe ==
    /\ copying.at # "idle"
    /\ Len(observed) < MaxObserve
    /\ observed' = Append(observed, At(fs, copying.dest))
    /\ UNCHANGED <<fs, copying, Launch>>

CopyNext ==
    \/ CopyCompare
    \/ CopyCreate
    \/ CopyWrite
    \/ CopyReturn
    \/ CopyWriteFails
    \/ Observe

SpecCopy == CopyInit /\ [][CopyNext]_vars

\* ================================================================== claims
Entries == {hist[i] : i \in 1 .. Len(hist)}

Pairs == {<<hist[i], hist[i + 1]>> : i \in 1 .. Len(hist) - 1}

Copies(r) == {r.copies[k] : k \in 1 .. Len(r.copies)}

WritesTo(r, dest) ==
    Cardinality({k \in 1 .. Len(r.copies) : r.copies[k].wrote /\ r.copies[k].dest = dest})

Attached(c) == {f \in Fields : c[f] # None}

HasArgs(cmd, toks) ==
    \E i \in 1 .. Len(cmd.args) - Len(toks) + 1 :
        SubSeq(cmd.args, i, i + Len(toks) - 1) = toks

\* C1: run calls prepare first; when prepare fails nothing is spawned and
\* its error is the result; when it succeeds exactly one process is spawned,
\* with the command name, arguments, environment and working directory of
\* the context as prepare left it (a rom renamed by Gens is passed renamed).
C1_RunPreparesThenSpawns ==
    pc = "done" =>
        LET r == hist[Len(hist)]
        IN /\ r.who = "run"
           /\ r.err # Ok => spawned = <<>>
           /\ r.err = Ok =>
                /\ Len(spawned) = 1
                /\ spawned[1].name = cmd_name(adapter, r.after, r.fs1)
                /\ spawned[1].args = args(adapter, r.after, r.fs1)
                /\ spawned[1].envs = env(adapter, r.after, r.fs1)
                /\ spawned[1].current_dir = W
                /\ adapter = "Gens" /\ r.before.rom # None =>
                     HasArgs(spawned[1], <<Flag("-rom"), Arg("", file_name(r.before.rom))>>)
                /\ adapter = "BizHawk" /\ r.before.rom # None =>
                     HasArgs(spawned[1], <<Arg("", r.before.rom)>>)

\* a Gens run whose absolute rom path was rewritten by prepare and spawned
C1_Witness ==
    /\ pc = "done"
    /\ adapter = "Gens"
    /\ Len(spawned) = 1
    /\ hist[Len(hist)].before.rom = C \o <<"x">>
    /\ HasArgs(spawned[1], <<Flag("-rom"), Arg("", <<"x">>)>>)

SameSources(r1, r2) ==
    \A f \in Attached(r1.before) :
        read(r1.fs0, r1.cwd, r1.before[f]) = read(r2.fs0, r2.cwd, r2.before[f])

\* C2: when prepare is called on two equal contexts with the sources
\* unchanged in between, every staged destination is written at most once in
\* total and the second prepare writes nothing.
C2_IdempotentStaging ==
    \A pr \in Pairs :
        LET r1 == pr[1]
            r2 == pr[2]
        IN (r2.before = r1.before /\ r2.cwd = r1.cwd /\ r2.fs0 = r1.fs1 /\ SameSources(r1, r2)) =>
             /\ \A k \in Copies(r2) : ~k.wrote
             /\ r2.fs1 = r2.fs0
             /\ \A k \in Copies(r1) \cup Copies(r2) :
                    WritesTo(r1, k.dest) + WritesTo(r2, k.dest) <= 1

\* C3: after a successful prepare, preparing the same context again with the
\* filesystem untouched succeeds, leaves the stored paths as they were and
\* writes no file.
C3_RepreparationIdempotent ==
    \A pr \in Pairs :
        LET r1 == pr[1]
            r2 == pr[2]
        IN (r1.err = Ok /\ r2.before = r1.after /\ r2.cwd = r1.cwd /\ r2.fs0 = r1.fs1) =>
             /\ r2.err = Ok
             /\ r2.after = r1.after
             /\ r2.fs1 = r2.fs0
             /\ \A k \in Copies(r2) : ~k.wrote

IsContent(v) == v \notin {"none", "dir"}

\* C4: copy_if_different writes the data when the destination is a file with
\* another hash or does not exist, writes nothing when the destination is a
\* file with the same hash, and after a successful return the destination
\* holds the data.
C4_HashGatedOverwrite ==
    \A r \in Entries : \A k \in Copies(r) :
        /\ (IsContent(k.before) /\ Sha1(k.before) # Sha1(k.data)) => (k.wrote /\ k.after = k.data)
        /\ k.before = "none" => (k.wrote /\ k.after = k.data)
        /\ (IsContent(k.before) /\ Sha1(k.before) = Sha1(k.data)) => (~k.wrote /\ k.after = k.before)
        /\ k.ok => k.after = k.data

\* one launch replaced a stale staged file, the next found it up to date
C4_Witness ==
    /\ \E r \in Entries : \E k \in Copies(r) :
          IsContent(k.before) /\ k.before # k.data /\ k.wrote /\ k.after = k.data
    /\ \E r \in Entries : \E k \in Copies(r) :
          IsContent(k.before) /\ k.before = k.data /\ ~k.wrote

Order == <<"config", "movie", "lua", "rom">>

\* C5 as stated: for BizHawk and FCEUX, prepare fails with AbsolutePathFailed
\* if and only if some attached path names an existing file and is not absolute.
C5_AbsoluteIffSomeRelative ==
    \A r \in Entries :
        adapter \in {"BizHawk", "Fceux"} =>
            (r.err.kind = "AbsolutePathFailed"
               <=> \E f \in Attached(r.before) :
                      is_file(r.fs0, r.cwd, r.before[f]) /\ ~is_absolute(r.before[f]))

\* the config is handed over by content, not by path
ConfigStaged(r) ==
    /\ adapter = "Fceux"
    /\ \E n \in {"fceux", "qfceux.exe"} : determine_executable(r.fs0, r.before) = <<n>>

\* where the staged config goes
ConfigDest(r) ==
    IF determine_executable(r.fs0, r.before) = <<"fceux">>
    THEN W \o <<".fceux", "fceux.cfg">>
    ELSE W \o <<"fceux.cfg">>

\* how the check of one field ends, read off the filesystem before the call
Verdict(r, f) ==
    LET p == r.before[f]
    IN IF p = None THEN "pass"
       ELSE IF ~is_file(r.fs0, r.cwd, p) THEN "missing"
       ELSE IF f = "config" /\ ConfigStaged(r)
       THEN (IF At(r.fs0, parent(ConfigDest(r))) \in {"none", "dir"}
                /\ At(r.fs0, ConfigDest(r)) # "dir"
             THEN "pass" ELSE "io")
       ELSE IF ~is_absolute(p) THEN "relative"
       ELSE "pass"

FirstVerdict(r, v) ==
    \E i \in 1 .. Len(Order) :
        /\ Verdict(r, Order[i]) = v
        /\ \A j \in 1 .. i - 1 : Verdict(r, Order[j]) = "pass"

\* C5 amended: for BizHawk and FCEUX, prepare fails with AbsolutePathFailed
\* if and only if the first attached field (config, movie, lua, rom) that
\* does not pass its check names an existing file by a path that is not
\* absolute; a config that FCEUX stages by content (fceux, qfceux.exe) is not
\* subject to the absolute-path check.
C5_AbsoluteIffFirstFailureRelative ==
    \A r \in Entries :
        adapter \in {"BizHawk", "Fceux"} =>
            (r.err.kind = "AbsolutePathFailed" <=> FirstVerdict(r, "relative"))

\* AbsolutePathFailed for a relative movie that follows a config that passed
C5_Witness ==
    \E r \in Entries :
        /\ adapter \in {"BizHawk", "Fceux"}
        /\ r.err.kind = "AbsolutePathFailed"
        /\ r.before.config # None
        /\ r.before.movie # None
        /\ ~is_absolute(r.before.movie)

\* the version label of an executable image, read off the table rows
LabelOf(img) ==
    IF \E i \in BuildIx : Builds[i][1] = img
    THEN Builds[CHOOSE i \in BuildIx : Builds[i][1] = img][3]
    ELSE "unknown"

Images == {Builds[i][1] : i \in BuildIx} \cup {UnknownBuild}

ClaimedUnsupported ==
    {"2.5.2", "2.5.1", "2.5.0", "2.4.2", "2.4.1", "2.4", "2.3.3", "2.3.2", "2.3.1",
     "2.3", "2.2.2", "2.2.1", "2.2", "2.1.1", "2.1.0", "1.13.2", "1.9.2", "1.6.1"}

ClaimedPre290 == {"2.8", "2.8-rc1", "2.7", "2.6.3", "2.6.2", "2.6.1", "2.6"}

\* C6 as stated: with an EmuHawk.exe of an unsupported version, preparing a
\* BizHawk context yields IncompatibleOSVersion and nothing is spawned.
C6_UnsupportedYieldsIncompatible ==
    \A r \in Entries :
        (adapter = "BizHawk" /\ LabelOf(r.fs0[Exe]) \in ClaimedUnsupported) =>
            /\ r.err.kind = "IncompatibleOSVersion"
            /\ spawned = <<>>

AllValid(r) == \A f \in Fields : Verdict(r, f) = "pass"

ValidNow ==
    \A f \in Attached(ctx) : is_file(fs, cwd, ctx[f]) /\ is_absolute(ctx[f])

\* C6 amended: with an EmuHawk.exe of an unsupported version, preparing a
\* BizHawk context always fails and nothing is spawned or staged; the error
\* is IncompatibleOSVersion when every attached field passes its check and
\* the failing field's error otherwise.  The same holds with any table row
\* of an unsupported version put in place of the executable.
C6_UnsupportedNeverPrepared ==
    /\ \A v \in ClaimedUnsupported : \E i \in BuildIx : Builds[i][3] = v
    /\ \A r \in Entries :
          (adapter = "BizHawk" /\ LabelOf(r.fs0[Exe]) \in ClaimedUnsupported) =>
              /\ r.err # Ok
              /\ r.err.kind = "IncompatibleOSVersion" <=> AllValid(r)
              /\ r.fs1 = r.fs0
              /\ r.who = "run" => spawned = <<>>
    /\ adapter = "BizHawk" /\ pc = "build" =>
          \A img \in Images :
              LabelOf(img) \in ClaimedUnsupported =>
                  LET r == run(adapter, ctx, put(fs, Exe, img), cwd)
                  IN /\ r.spawn = <<>>
                     /\ r.prep.err # Ok
                     /\ r.prep.err.kind = "IncompatibleOSVersion" <=> ValidNow
                     /\ r.prep.fs = put(fs, Exe, img)

\* a run against an unsupported build, every attached field valid
C6_Witness ==
    /\ adapter = "BizHawk"
    /\ pc = "done"
    /\ LabelOf(fs[Exe]) = "2.5.2"
    /\ ctx.rom = C \o <<"x">>
    /\ hist[Len(hist)].err.kind = "IncompatibleOSVersion"
    /\ spawned = <<>>

Expected(img) ==
    IF LabelOf(img) \in ClaimedPre290 THEN BIZHAWK_BASH_PRE290 ELSE BIZHAWK_BASH_DEFAULT

\* C7: after every successful BizHawk prepare, start-bizhawk.sh in
\* working_dir holds the pre-2.90 payload when the version of the current
\* executable is one of 2.8, 2.8-rc1, 2.7, 2.6.3, 2.6.2, 2.6.1, 2.6 and the
\* default payload otherwise, whatever the file held before; the same holds
\* with any table row put in place of the executable.
C7_NoStaleBootstrap ==
    /\ \A r \in Entries :
          (adapter = "BizHawk" /\ r.err = Ok) => At(r.fs1, Script) = Expected(r.fs0[Exe])
    /\ adapter = "BizHawk" /\ pc = "build" =>
          \A img \in Images :
              LET r == prepare(adapter, ctx, put(fs, Exe, img), cwd)
              IN r.err = Ok => At(r.fs, Script) = Expected(img)

\* a prepare that found the script of the build installed before
C7_Witness ==
    /\ adapter = "BizHawk"
    /\ Len(hist) = 2
    /\ hist[1].err = Ok
    /\ hist[2].err = Ok
    /\ LabelOf(hist[1].fs0[Exe]) = "2.9"
    /\ LabelOf(hist[2].fs0[Exe]) = "2.7"
    /\ At(hist[2].fs0, Script) = BIZHAWK_BASH_DEFAULT
    /\ At(hist[2].fs1, Script) = BIZHAWK_BASH_PRE290

\* C8 as stated: FCEUX, working_dir holding only the native fceux binary,
\* a relative path of a movie file attached with with_movie and nothing
\* else: prepare fails with AbsolutePathFailed and changes no file.
C8_RelativeMovieFails ==
    \A r \in Entries :
        (/\ adapter = "Fceux"
         /\ r.fs0 = FceuxBin({"fceux"})
         /\ Attached(r.before) = {"movie"}
         /\ ~is_absolute(given.movie)
         /\ is_file(r.fs0, r.cwd, given.movie))
        => (r.err.kind = "AbsolutePathFailed" /\ r.fs1 = r.fs0)

\* C8 amended: in that scenario prepare changes no file; it fails with
\* AbsolutePathFailed exactly when the stored movie path is still relative
\* (with_movie could not resolve it when it was attached) and succeeds when
\* with_movie stored the canonical absolute path, as it does whenever the
\* current directory is the same at with_movie and at prepare.
C8_RelativeMovieCanonicalized ==
    \A r \in Entries :
        (/\ adapter = "Fceux"
         /\ r.fs0 = FceuxBin({"fceux"})
         /\ Attached(r.before) = {"movie"}
         /\ ~is_absolute(given.movie)
         /\ is_file(r.fs0, r.cwd, given.movie))
        => /\ r.fs1 = r.fs0
           /\ r.err.kind = "AbsolutePathFailed" <=> ~is_absolute(r.before.movie)
           /\ is_absolute(r.before.movie) => r.err = Ok
           /\ given.at = r.cwd => (r.before.movie = push(r.cwd, given.movie) /\ r.err = Ok)

\* the stored path stayed relative and names a file at prepare
C8_Witness ==
    \E r \in Entries :
        /\ adapter = "Fceux"
        /\ r.fs0 = FceuxBin({"fceux"})
        /\ Attached(r.before) = {"movie"}
        /\ r.before.movie = <<"x">>
        /\ is_file(r.fs0, r.cwd, given.movie)
        /\ r.err.kind = "AbsolutePathFailed"
        /\ r.fs1 = r.fs0

CopiedFor(r, f) == \E k \in Copies(r) : k.field = f

\* C9 as stated: after a successful Gens prepare (a) the rom is in
\* working_dir under its file name, byte-identical to the source, and the rom
\* field is that file name; (b) the same for a movie or lua whose path was
\* not absolute; (c) a movie or lua whose path was absolute is not copied
\* and its field is unchanged.
C9_GensStaging ==
    \A r \in Entries :
        (adapter = "Gens" /\ r.err = Ok) =>
            /\ r.before.rom # None =>
                 /\ At(r.fs1, W \o file_name(r.before.rom)) = read(r.fs0, r.cwd, r.before.rom)
                 /\ r.after.rom = file_name(r.before.rom)
            /\ \A f \in {"movie", "lua"} :
                 /\ (r.before[f] # None /\ ~is_absolute(r.before[f])) =>
                      /\ At(r.fs1, W \o file_name(r.before[f])) = read(r.fs0, r.cwd, r.before[f])
                      /\ r.after[f] = file_name(r.before[f])
                 /\ (r.before[f] # None /\ is_absolute(r.before[f])) =>
                      /\ ~CopiedFor(r, f)
                      /\ r.after[f] = r.before[f]

OrderOf(a) == IF a = "Gens" THEN <<"rom", "movie", "lua">> ELSE Order

MissingOf(f) ==
    CASE f = "config" -> "MissingConfig"
      [] f = "movie"  -> "MissingMovie"
      [] f = "lua"    -> "MissingLua"
      [] f = "rom"    -> "MissingRom"

FieldErrors ==
    {"MissingConfig", "MissingMovie", "MissingLua", "MissingRom", "AbsolutePathFailed"}

\* the attached fields in the order prepare examines them
AttachedInOrder(a, c) == SelectSeq(OrderOf(a), LAMBDA f : c[f] # None)

\* C10: prepare examines the attached fields in a fixed order (config,
\* movie, lua, rom; for Gens rom, movie, lua) and returns the error of the
\* first field that fails; no later field is examined or staged, and for
\* BizHawk the version is not checked and the script is not written.
C10_FirstFailureWins ==
    \A r \in Entries :
        r.err.kind \in FieldErrors =>
            LET n == Len(r.checked)
                f == r.checked[n]
                earlier == {r.checked[j] : j \in 1 .. n - 1}
            IN /\ n >= 1
               /\ r.checked = SubSeq(AttachedInOrder(adapter, r.before), 1, n)
               /\ \/ /\ r.err = Err(MissingOf(f), r.before[f])
                     /\ ~is_file(r.fs1, r.cwd, r.before[f])
                  \/ /\ r.err.kind = "AbsolutePathFailed"
                     /\ adapter # "Gens"
                     /\ is_file(r.fs1, r.cwd, r.before[f])
                     /\ ~is_absolute(r.before[f])
               /\ \A g \in earlier : is_file(r.fs1, r.cwd, r.before[g])
               /\ \A k \in Copies(r) : k.field \in earlier
               /\ \A g \in Fields \ earlier : r.after[g] = r.before[g]
               /\ \A q \in DOMAIN r.fs1 :
                     r.fs1[q] # At(r.fs0, q) =>
                        \/ \E k \in Copies(r) : k.dest = q
                        \/ q = W \o <<".fceux">>
               /\ adapter = "BizHawk" =>
                     (~r.version_checked /\ At(r.fs1, Script) = At(r.fs0, Script))

\* the config and the rom are both missing: the config's error is returned;
\* or Gens staged the rom and then found the movie missing
C10_Witness ==
    /\ \E r \in Entries :
          /\ adapter = "BizHawk"
          /\ r.err.kind = "MissingConfig"
          /\ r.before.rom # None
          /\ ~is_file(r.fs0, r.cwd, r.before.rom)
          /\ r.checked = <<"config">>

\* C11: while copy_if_different runs and after it returned, whether with Ok
\* or with an error, the destination is what it was before the call or holds
\* the whole data, and another process never reads anything else there.
C11_NoPartialContent ==
    copying.at # "idle" =>
        LET whole == {copying.old, Bytes(copying.data)}
        IN /\ At(fs, copying.dest) \in whole
           /\ \A i \in 1 .. Len(observed) : observed[i] \in whole

\* the context differs from the receiver in the named field only, and no
\* file is touched
OnlyField(field) ==
    /\ \A g \in DOMAIN ctx \ {field} : ctx'[g] = ctx[g]
    /\ DOMAIN ctx' = DOMAIN ctx
    /\ fs' = fs

\* Utf8Path::canonicalize_utf8().unwrap_or_else(|_| p) as the claim words it
Canonicalized(p) == IF exists(fs, cwd, p) THEN push(cwd, p) ELSE p

\* C12 as stated: for every adapter each with_* call changes the named field
\* only, and the field holds the canonical form of the path when
\* canonicalization succeeds and the path as given when it fails.
C12_EveryBuilderCanonicalizes ==
    [][\A field \in Fields : \A p \in Inputs(adapter) :
          Attach(field, p) => (OnlyField(field) /\ ctx'[field] = Canonicalized(p))]_vars

\* C12 amended: for every adapter each with_* call changes the named field
\* only; BizHawk and FCEUX store the canonical form of the path when
\* canonicalization succeeds and the path as given when it fails; Gens
\* stores the path as given, resolvable or not.
C12_BuildersFrameAndCanonicalize ==
    [][\A field \in Fields : \A p \in Inputs(adapter) :
          Attach(field, p) =>
             /\ OnlyField(field)
             /\ adapter \in {"BizHawk", "Fceux"} => ctx'[field] = Canonicalized(p)
             /\ adapter = "Gens" => ctx'[field] = p]_vars

\* one context holds a path that was canonicalized next to one that could
\* not be, and the latter is as it was given
C12_Witness ==
    /\ adapter \in {"BizHawk", "Fceux"}
    /\ pc = "build"
    /\ given.rom = <<"x">>
    /\ ctx.rom = C \o <<"x">>
    /\ given.lua = C \o <<"z">>
    /\ ctx.lua = C \o <<"z">>

\* the FCEUX prepare calls made with a config attached
ConfigEntries == {r \in Entries : adapter = "Fceux" /\ r.before.config # None}

Candidate(r) == determine_executable(r.fs0, r.before)

NativeDir == W \o <<".fceux">>

NativeCfg == NativeDir \o <<"fceux.cfg">>

BesideCfg == W \o <<"fceux.cfg">>

\* the arguments the emulator is started with carry "-cfg" and the config path
CfgFlag(r) ==
    HasArgs([args |-> args("Fceux", r.after, r.fs1)],
            <<Flag("-cfg"), Arg("", r.before.config)>>)

NoCfgFlag(r) ==
    \A i \in 1 .. Len(args("Fceux", r.after, r.fs1)) :
        args("Fceux", r.after, r.fs1)[i] # Flag("-cfg")

\* the config's content is in dest and was handed over for no other place
CopiedTo(r, dest) ==
    /\ At(r.fs1, dest) = read(r.fs0, r.cwd, r.before.config)
    /\ \A k \in Copies(r) : k.field = "config" => k.dest = dest
    /\ \E k \in Copies(r) : k.field = "config" /\ k.ok

\* what C13 says of a config that is not a file, and of the builds that take
\* the config by argument
ConfigMissingOrByFlag(r) ==
    /\ ~is_file(r.fs0, r.cwd, r.before.config) =>
          r.err = Err("MissingConfig", r.before.config)
    /\ (is_file(r.fs0, r.cwd, r.before.config)
        /\ Candidate(r) \in {<<"fceux.exe">>, <<"fceux64.exe">>}) =>
          /\ Copies(r) = {}
          /\ r.fs1 = r.fs0
          /\ ~is_absolute(r.before.config) => r.err.kind = "AbsolutePathFailed"
          /\ is_absolute(r.before.config) => r.err.kind \notin {"MissingConfig", "StdIo"}
          /\ CfgFlag(r)

Blocked(f, dest) ==
    \/ At(f, parent(dest)) \notin {"none", "dir"}
    \/ At(f, dest) = "dir"

HomeOf(r) ==
    LET e == env("Fceux", r.after, r.fs1)
    IN e[CHOOSE i \in 1 .. Len(e) : e[i].text = "HOME"].path

\* C14: when the detected executable is the native fceux and a config is
\* attached, the path prepare stages the config at is <HOME>/.fceux/fceux.cfg
\* for the HOME that env() returns.
C14_StagedWhereHomePoints ==
    \A r \in ConfigEntries :
        Candidate(r) = <<"fceux">> =>
            \A k \in Copies(r) :
                k.field = "config" => k.dest = HomeOf(r) \o <<".fceux", "fceux.cfg">>

====
